---- MODULE Spec2Model ----
(***************************************************************************)
(* The line interpreter of src/main.py: Tokenizer -> Parser -> Interpreter *)
(* driven by the read loop of main().  A line of text is a sequence of     *)
(* one-character strings; the tokenizer cursor `position` is 0-based as in *)
(* the source, so the character under the cursor is code[position + 1].    *)
(***************************************************************************)
EXTENDS Integers, Sequences, FiniteSets, TLC

\* ------------------------------------------------------------------------
\* Bounds of the model
\* ------------------------------------------------------------------------
\* longest line typed, in characters (specification Spec)
MaxLen == 4
\* names in the store beyond which no further line is typed (specification Spec)
MaxVars == 1
\* longest line typed word by word, in words (specification SpecSession)
MaxWords == 2
\* largest numerator or denominator in the store with which a further line
\* is typed (specification SpecSession)
MaxValue == 1
\* operators in the expression of a statement typed (specification SpecSession)
MaxStmtOps == 1
\* operators in a generated expression (specification SpecExpr)
MaxOps == 2

\* ------------------------------------------------------------------------
\* Characters (str.isspace / isdigit / isalpha / isalnum on the ASCII range)
\* ------------------------------------------------------------------------
SpaceChars == {" ", "\t"}
DigitChars == {"0", "1", "2", "3", "4", "5", "6", "7", "8", "9"}
AlphaChars ==
    {"a", "b", "c", "d", "e", "f", "g", "h", "i", "j", "k", "l", "m",
     "n", "o", "p", "q", "r", "s", "t", "u", "v", "w", "x", "y", "z"}

isspace(c) == c \in SpaceChars
isdigit(c) == c \in DigitChars
isalpha(c) == c \in AlphaChars
isalnum(c) == isalpha(c) \/ isdigit(c)

\* Python's None where a character is expected
NoChar == ""

\* ------------------------------------------------------------------------
\* Sequencing.  Bind(v, F) is F applied to v, the way a Python statement
\* `x = v` is followed by statements that use x; Then(r, F) goes on with F
\* when the call that returned r did not raise, and otherwise lets the
\* exception r carries propagate.
\* ------------------------------------------------------------------------
Bind(v, F(_)) == F(v)
Then(r, F(_)) == IF r.ok THEN F(r) ELSE r

\* ------------------------------------------------------------------------
\* Values: Python int, and the float that `/` produces.  A value is the
\* rational num/den in lowest terms; float marks a result of true division
\* (or of arithmetic on one).  Rounding of doubles is not represented.
\* ------------------------------------------------------------------------
Abs(n) == IF n < 0 THEN -n ELSE n

RECURSIVE GCD(_, _)
GCD(a, b) == IF b = 0 THEN a ELSE GCD(b, a % b)

IntVal(n) == [num |-> n, den |-> 1, float |-> FALSE]

Norm(n, d, f) ==
    Bind(GCD(Abs(n), d), LAMBDA g : [num |-> n \div g, den |-> d \div g, float |-> f])

py_add(l, r) == Norm(l.num * r.den + r.num * l.den, l.den * r.den, l.float \/ r.float)
py_sub(l, r) == Norm(l.num * r.den - r.num * l.den, l.den * r.den, l.float \/ r.float)
py_mul(l, r) == Norm(l.num * r.num, l.den * r.den, l.float \/ r.float)
\* l / r with r # 0
py_truediv(l, r) ==
    IF r.num > 0 THEN Norm(l.num * r.den, l.den * r.num, TRUE)
                 ELSE Norm(-(l.num * r.den), l.den * (-r.num), TRUE)

\* ------------------------------------------------------------------------
\* Errors: every `raise Exception(...)` of the source, and ZeroDivisionError
\* ------------------------------------------------------------------------
NoErr == [kind |-> "none", name |-> <<>>, expected |-> "", found |-> ""]
IllegalCharacter(c) ==
    [kind |-> "IllegalCharacter", name |-> <<c>>, expected |-> "", found |-> ""]
UnexpectedToken(e, f) ==
    [kind |-> "UnexpectedToken", name |-> <<>>, expected |-> e, found |-> f]
UndefinedVariable(n) ==
    [kind |-> "UndefinedVariable", name |-> n, expected |-> "", found |-> ""]
UnhandledNodeKind(t) ==
    [kind |-> "UnhandledNodeKind", name |-> <<>>, expected |-> "", found |-> t]
ZeroDivisionError ==
    [kind |-> "ZeroDivisionError", name |-> <<>>, expected |-> "", found |-> ""]

\* ------------------------------------------------------------------------
\* Tokens
\* ------------------------------------------------------------------------
Token(type, num, str) == [type |-> type, num |-> num, str |-> str]

\* What get_next_token returns or raises, with the cursor it leaves
TokOk(tok, pos) == [ok |-> TRUE, tok |-> tok, pos |-> pos, err |-> NoErr]
TokErr(err, pos) == [ok |-> FALSE, tok |-> Token("EOF", 0, <<>>), pos |-> pos, err |-> err]

current_char(code, position) ==
    IF position < Len(code) THEN code[position + 1] ELSE NoChar

RECURSIVE skip_whitespace(_, _)
skip_whitespace(code, position) ==
    IF current_char(code, position) # NoChar /\ isspace(current_char(code, position))
    THEN skip_whitespace(code, position + 1)
    ELSE position

\* int(num): the decimal digits read so far, most significant first
DigitValue(c) ==
    CASE c = "0" -> 0 [] c = "1" -> 1 [] c = "2" -> 2 [] c = "3" -> 3 [] c = "4" -> 4
      [] c = "5" -> 5 [] c = "6" -> 6 [] c = "7" -> 7 [] c = "8" -> 8 [] c = "9" -> 9

RECURSIVE numberLoop(_, _, _)
numberLoop(code, position, acc) ==
    IF current_char(code, position) # NoChar /\ isdigit(current_char(code, position))
    THEN numberLoop(code, position + 1, acc * 10 + DigitValue(current_char(code, position)))
    ELSE TokOk(Token("NUMBER", acc, <<>>), position)

number(code, position) == numberLoop(code, position, 0)

Keyword(id_str) ==
    CASE id_str = <<"i", "f">> -> "IF"
      [] id_str = <<"e", "l", "s", "e">> -> "ELSE"
      [] id_str = <<"w", "h", "i", "l", "e">> -> "WHILE"
      [] id_str = <<"f", "u", "n", "c", "t", "i", "o", "n">> -> "FUNCTION"
      [] OTHER -> "ID"

RECURSIVE identifierLoop(_, _, _)
identifierLoop(code, position, id_str) ==
    IF /\ current_char(code, position) # NoChar
       /\ (isalnum(current_char(code, position)) \/ current_char(code, position) = "_")
    THEN identifierLoop(code, position + 1, Append(id_str, current_char(code, position)))
    ELSE TokOk(Token(Keyword(id_str), 0, id_str), position)

identifier(code, position) == identifierLoop(code, position, <<>>)

PunctType(c) ==
    CASE c = "+" -> "PLUS"   [] c = "-" -> "MINUS"  [] c = "*" -> "MUL"
      [] c = "/" -> "DIV"    [] c = "=" -> "ASSIGN" [] c = "(" -> "LPAREN"
      [] c = ")" -> "RPAREN" [] c = "{" -> "LBRACE" [] c = "}" -> "RBRACE"
      [] c = "," -> "COMMA"

PunctChars == {"+", "-", "*", "/", "=", "(", ")", "{", "}", ","}

\* get_next_token that takes an unrecognized character for the end of input
get_next_token_lenient(code, position0) ==
    Bind(skip_whitespace(code, position0), LAMBDA position :
    Bind(current_char(code, position), LAMBDA c :
        IF c = NoChar THEN TokOk(Token("EOF", 0, <<>>), position)
        ELSE IF isdigit(c) THEN number(code, position)
        ELSE IF isalpha(c) THEN identifier(code, position)
        ELSE IF c \in PunctChars THEN TokOk(Token(PunctType(c), 0, <<c>>), position + 1)
        ELSE TokOk(Token("EOF", 0, <<>>), position)))

get_next_token(code, position0) ==
    Bind(skip_whitespace(code, position0), LAMBDA position :
    Bind(current_char(code, position), LAMBDA c :
        IF c = NoChar THEN TokOk(Token("EOF", 0, <<>>), position)
        ELSE IF isdigit(c) THEN number(code, position)
        ELSE IF isalpha(c) THEN identifier(code, position)
        ELSE IF c \in PunctChars THEN TokOk(Token(PunctType(c), 0, <<c>>), position + 1)
        ELSE TokErr(IllegalCharacter(c), position)))

\* peek that returns the character under the cursor
peek_cursor(code, position) == current_char(code, position)

peek(code, position) ==
    IF position + 1 < Len(code) THEN code[position + 2] ELSE NoChar

\* ------------------------------------------------------------------------
\* AST nodes.  None is Python's None, which factor() returns when it falls
\* off the end of its if/elif chain.
\* ------------------------------------------------------------------------
None == [kind |-> "None"]
Num(token) == [kind |-> "Num", value |-> token.num]
Var(token) == [kind |-> "Var", name |-> token.str]
BinOp(left, op, right) == [kind |-> "BinOp", left |-> left, op |-> op.type, right |-> right]
Assign(left, right) == [kind |-> "Assign", left |-> left, right |-> right]

\* ------------------------------------------------------------------------
\* Parser.  A parser method returns a node or raises; pos/tok are the
\* tokenizer cursor and Parser.current_token it leaves.
\* ------------------------------------------------------------------------
POk(node, pos, tok) == [ok |-> TRUE, node |-> node, pos |-> pos, tok |-> tok, err |-> NoErr]
PErr(err, pos, tok) == [ok |-> FALSE, node |-> None, pos |-> pos, tok |-> tok, err |-> err]

eat(code, pos, tok, token_type) ==
    IF tok.type = token_type
    THEN Bind(get_next_token(code, pos), LAMBDA t :
             IF t.ok THEN POk(None, t.pos, t.tok) ELSE PErr(t.err, t.pos, tok))
    ELSE PErr(UnexpectedToken(token_type, tok.type), pos, tok)

RECURSIVE factor(_, _, _)
RECURSIVE term(_, _, _)
RECURSIVE termLoop(_, _, _, _)
RECURSIVE expr(_, _, _)
RECURSIVE exprLoop(_, _, _, _)

factor(code, pos, tok) ==
    IF tok.type = "NUMBER"
    THEN Then(eat(code, pos, tok, "NUMBER"), LAMBDA e : POk(Num(tok), e.pos, e.tok))
    ELSE IF tok.type = "ID"
    THEN Then(eat(code, pos, tok, "ID"), LAMBDA e : POk(Var(tok), e.pos, e.tok))
    ELSE IF tok.type = "LPAREN"
    THEN Then(eat(code, pos, tok, "LPAREN"), LAMBDA e :
         Then(expr(code, e.pos, e.tok), LAMBDA node :
         Then(eat(code, node.pos, node.tok, "RPAREN"), LAMBDA c :
             POk(node.node, c.pos, c.tok))))
    ELSE POk(None, pos, tok)

\* the while loop of term, with node the tree built so far
termLoop(code, node, pos, tok) ==
    IF tok.type \in {"MUL", "DIV"}
    THEN Then(eat(code, pos, tok, tok.type), LAMBDA e :
         Then(factor(code, e.pos, e.tok), LAMBDA f :
             termLoop(code, BinOp(node, tok, f.node), f.pos, f.tok)))
    ELSE POk(node, pos, tok)

term(code, pos, tok) ==
    Then(factor(code, pos, tok), LAMBDA f : termLoop(code, f.node, f.pos, f.tok))

\* the loop of expr with a factor, not a term, to the right of + and -
exprLoop_factor(code, node, pos, tok) ==
    IF tok.type \in {"PLUS", "MINUS"}
    THEN Then(eat(code, pos, tok, tok.type), LAMBDA e :
         Then(factor(code, e.pos, e.tok), LAMBDA t :
             exprLoop(code, BinOp(node, tok, t.node), t.pos, t.tok)))
    ELSE POk(node, pos, tok)

\* the while loop of expr, with node the tree built so far
exprLoop(code, node, pos, tok) ==
    IF tok.type \in {"PLUS", "MINUS"}
    THEN Then(eat(code, pos, tok, tok.type), LAMBDA e :
         Then(term(code, e.pos, e.tok), LAMBDA t :
             exprLoop(code, BinOp(node, tok, t.node), t.pos, t.tok)))
    ELSE POk(node, pos, tok)

expr(code, pos, tok) ==
    Then(term(code, pos, tok), LAMBDA t : exprLoop(code, t.node, t.pos, t.tok))

assignment_statement(code, pos, tok) ==
    Bind(Var(tok), LAMBDA left :
    Then(eat(code, pos, tok, "ID"), LAMBDA i :
    Then(eat(code, i.pos, i.tok, "ASSIGN"), LAMBDA a :
    Then(expr(code, a.pos, a.tok), LAMBDA right :
        POk(Assign(left, right.node), right.pos, right.tok)))))

\* The branch condition of Parser.statement
takesAssignment(code, pos, tok) ==
    tok.type = "ID" /\ peek(code, pos) = "="

statement(code, pos, tok) ==
    IF takesAssignment(code, pos, tok)
    THEN assignment_statement(code, pos, tok)
    ELSE expr(code, pos, tok)

\* Parser(Tokenizer(text)): Tokenizer.__init__ puts the cursor at 0 and
\* Parser.__init__ reads the first token
Parser(code) ==
    Bind(get_next_token(code, 0), LAMBDA t :
        IF t.ok THEN POk(None, t.pos, t.tok) ELSE PErr(t.err, t.pos, t.tok))

\* Parser(Tokenizer(text)).parse()
parse(code) ==
    Then(Parser(code), LAMBDA p : statement(code, p.pos, p.tok))

\* ------------------------------------------------------------------------
\* Interpreter.  The store Interpreter.variables is a function from names
\* (sequences of characters) to values.
\* ------------------------------------------------------------------------
EmptyStore == [x \in {} |-> IntVal(0)]

set_item(store, name, value) ==
    [x \in DOMAIN store \cup {name} |-> IF x = name THEN value ELSE store[x]]

VOk(value, store) == [ok |-> TRUE, value |-> value, err |-> NoErr, store |-> store]
VErr(err, store) == [ok |-> FALSE, value |-> IntVal(0), err |-> err, store |-> store]

RECURSIVE visit(_, _)

\* the operator of a BinOp applied to the values of its operands
apply(op, left, right, store) ==
    IF op = "PLUS" THEN VOk(py_add(left, right), store)
    ELSE IF op = "MINUS" THEN VOk(py_sub(left, right), store)
    ELSE IF op = "MUL" THEN VOk(py_mul(left, right), store)
    ELSE IF right.num = 0 THEN VErr(ZeroDivisionError, store)
    ELSE VOk(py_truediv(left, right), store)

\* visit_BinOp that visits the right operand first
visit_BinOp_rightFirst(node, store) ==
    Then(visit(node.right, store), LAMBDA right :
    Then(visit(node.left, right.store), LAMBDA left :
        apply(node.op, left.value, right.value, left.store)))

visit_BinOp(node, store) ==
    Then(visit(node.left, store), LAMBDA left :
    Then(visit(node.right, left.store), LAMBDA right :
        apply(node.op, left.value, right.value, right.store)))

visit_Num(node, store) == VOk(IntVal(node.value), store)

\* visit_Var that reads a missing name as 0, as Memory.get_var reads it as None
visit_Var_default(node, store) ==
    IF node.name \notin DOMAIN store
    THEN VOk(IntVal(0), store)
    ELSE VOk(store[node.name], store)

\* visit_Var that enters a missing name in the store before it fails
visit_Var_enters(node, store) ==
    IF node.name \notin DOMAIN store
    THEN VErr(UndefinedVariable(node.name), set_item(store, node.name, IntVal(0)))
    ELSE VOk(store[node.name], store)

visit_Var(node, store) ==
    IF node.name \notin DOMAIN store
    THEN VErr(UndefinedVariable(node.name), store)
    ELSE VOk(store[node.name], store)

\* visit_Assign that returns the value and leaves the store alone
visit_Assign_forgets(node, store) ==
    Then(visit(node.right, store), LAMBDA value : VOk(value.value, value.store))

\* visit_Assign that enters the target in the store before it visits the
\* right-hand side
visit_Assign_early(node, store) ==
    Bind(node.left.name, LAMBDA var_name :
    Then(visit(node.right, set_item(store, var_name, IntVal(0))), LAMBDA value :
        VOk(value.value, set_item(value.store, var_name, value.value))))

visit_Assign(node, store) ==
    Bind(node.left.name, LAMBDA var_name :
    Then(visit(node.right, store), LAMBDA value :
        VOk(value.value, set_item(value.store, var_name, value.value))))

generic_visit(node, store) == VErr(UnhandledNodeKind("NoneType"), store)

visit(node, store) ==
    IF node.kind = "BinOp" THEN visit_BinOp(node, store)
    ELSE IF node.kind = "Num" THEN visit_Num(node, store)
    ELSE IF node.kind = "Var" THEN visit_Var(node, store)
    ELSE IF node.kind = "Assign" THEN visit_Assign(node, store)
    ELSE generic_visit(node, store)

\* interpreter.parser = Parser(Tokenizer(text)); interpreter.interpret()
interpret(code, store) ==
    Bind(parse(code), LAMBDA tree :
        IF ~tree.ok
        THEN [tree |-> None, out |-> VErr(tree.err, store), pos |-> tree.pos, tok |-> tree.tok]
        ELSE [tree |-> tree.node, out |-> visit(tree.node, store),
              pos |-> tree.pos, tok |-> tree.tok])

\* ------------------------------------------------------------------------
\* The read loop of main()
\* ------------------------------------------------------------------------
VARIABLES
    variables,   \* interpreter.variables
    text,        \* the line input() returned
    result,      \* what the loop body is about to print: a result or an error
    tree,        \* the AST parse() returned for text (None if it raised)
    pc,          \* "input" | "print" | "done"
    before,      \* interpreter.variables when the current line was read
    src,         \* the expression the line was written from (SpecExpr), else None
    assigned     \* per name, the result of the last successful line `x = ...`

vars == <<variables, text, result, tree, pc, before, src, assigned>>

NoResult == [kind |-> "none", value |-> IntVal(0), err |-> NoErr]
Result(value) == [kind |-> "ok", value |-> value, err |-> NoErr]
Error(err) == [kind |-> "error", value |-> IntVal(0), err |-> err]

\* str.strip()
RECURSIVE lstrip(_)
lstrip(s) == IF s # <<>> /\ isspace(Head(s)) THEN lstrip(Tail(s)) ELSE s
RECURSIVE rstrip(_)
rstrip(s) == IF s # <<>> /\ isspace(s[Len(s)]) THEN rstrip(SubSeq(s, 1, Len(s) - 1)) ELSE s
strip(s) == rstrip(lstrip(s))

ExitText == <<"e", "x", "i", "t">>

\* The name a line assigns to as written: blanks, an identifier, blanks, '='
IdentEnd(s) == identifier(s, 0).pos
TextTarget(s) ==
    LET t == lstrip(s)
        e == IF t # <<>> /\ isalpha(t[1]) THEN IdentEnd(t) ELSE 0
        r == lstrip(SubSeq(t, e + 1, Len(t)))
    IN  IF e > 0 /\ r # <<>> /\ r[1] = "=" THEN SubSeq(t, 1, e) ELSE <<>>

del_item(store, name) == [x \in DOMAIN store \ {name} |-> store[x]]

\* History of successful assignments as written, kept beside the store
Recorded(hist, line, out) ==
    LET x == TextTarget(line)
    IN  IF x = <<>> THEN hist
        ELSE IF out.ok THEN set_item(hist, x, out.value)
        ELSE del_item(hist, x)

Init ==
    /\ variables = EmptyStore
    /\ text = <<>>
    /\ result = NoResult
    /\ tree = None
    /\ pc = "input"
    /\ before = EmptyStore
    /\ src = None
    /\ assigned = EmptyStore

\* text.strip() == 'exit': break
Exit ==
    /\ pc = "input"
    /\ text' = ExitText
    /\ pc' = "done"
    /\ UNCHANGED <<variables, result, tree, before, src, assigned>>

\* One pass of the loop body for a line that is not the exit command:
\* text = input(...), Tokenizer(text), Parser(tokenizer),
\* interpreter.interpret(), and the except clause that catches whatever
\* they raise
Line(line, from) ==
    /\ strip(line) # ExitText
    /\ text' = line
    /\ src' = from
    /\ \E r \in {interpret(line, variables)} :
           /\ tree' = r.tree
           /\ result' = IF r.out.ok THEN Result(r.out.value) ELSE Error(r.out.err)
           /\ variables' = r.out.store
           /\ assigned' = Recorded(assigned, line, r.out)
    /\ before' = variables
    /\ pc' = "print"

\* print(...), then the next iteration of the while loop
Report ==
    /\ pc = "print"
    /\ pc' = "input"
    /\ text' = <<>>
    /\ result' = NoResult
    /\ tree' = None
    /\ src' = None
    /\ before' = variables
    /\ UNCHANGED <<variables, assigned>>

\* ------------------------------------------------------------------------
\* Spec: every line of at most MaxLen characters over Chars
\* ------------------------------------------------------------------------
Chars == {"i", "f", "1", " ", "=", "+", "(", ")", "@"}
Texts(S, k) == UNION {[1..m -> S] : m \in 0..k}

Input ==
    /\ pc = "input"
    /\ Cardinality(DOMAIN variables) < MaxVars
    /\ \E line \in Texts(Chars, MaxLen) : Line(line, None)

Next == Input \/ Report \/ Exit

Spec == Init /\ [][Next]_vars

\* ------------------------------------------------------------------------
\* Reading a line and an AST without running the pipeline
\* ------------------------------------------------------------------------
IsWordChar(c) == c \in AlphaChars \cup DigitChars \cup {"_"}
Recognized == SpaceChars \cup DigitChars \cup AlphaChars \cup PunctChars \cup {"_"}
Keywords ==
    {<<"i", "f">>, <<"e", "l", "s", "e">>, <<"w", "h", "i", "l", "e">>,
     <<"f", "u", "n", "c", "t", "i", "o", "n">>}

CharAt(s, i) == IF i \in 1..Len(s) THEN s[i] ELSE NoChar

\* index of the first character of s that is not a blank (Len(s) + 1 if none)
FirstNonBlank(s) ==
    CHOOSE i \in 1..(Len(s) + 1) :
        /\ \A k \in 1..(i - 1) : s[k] \in SpaceChars
        /\ (i <= Len(s) => s[i] \notin SpaceChars)

\* index of the last character of the word that starts at index i
WordEnd(s, i) ==
    CHOOSE j \in i..Len(s) :
        /\ \A k \in i..j : IsWordChar(s[k])
        /\ (j < Len(s) => ~IsWordChar(s[j + 1]))

\* the line starts (after blanks) with an identifier that is no keyword
StartsWithIdentifier(s) ==
    /\ CharAt(s, FirstNonBlank(s)) \in AlphaChars
    /\ SubSeq(s, FirstNonBlank(s), WordEnd(s, FirstNonBlank(s))) \notin Keywords

FirstWord(s) == SubSeq(s, FirstNonBlank(s), WordEnd(s, FirstNonBlank(s)))
\* the n-th character after that identifier in the raw text
AfterFirstWord(s, n) == CharAt(s, WordEnd(s, FirstNonBlank(s)) + n)

\* Parser.statement took the assignment production for this line
TookAssignment(s) ==
    LET p == Parser(s) IN p.ok /\ takesAssignment(s, p.pos, p.tok)

RECURSIVE WellFormed(_)
WellFormed(node) ==
    IF node.kind = "BinOp" THEN WellFormed(node.left) /\ WellFormed(node.right)
    ELSE IF node.kind = "Assign" THEN node.left.kind = "Var" /\ WellFormed(node.right)
    ELSE node.kind \in {"Num", "Var"}

RECURSIVE AssignCount(_)
AssignCount(node) ==
    IF node.kind = "BinOp" THEN AssignCount(node.left) + AssignCount(node.right)
    ELSE IF node.kind = "Assign" THEN 1 + AssignCount(node.right)
    ELSE 0

\* names of the variable references the tree holds (an assignment's target is none)
RECURSIVE VarNames(_)
VarNames(node) ==
    IF node.kind = "BinOp" THEN VarNames(node.left) \cup VarNames(node.right)
    ELSE IF node.kind = "Assign" THEN VarNames(node.right)
    ELSE IF node.kind = "Var" THEN {node.name}
    ELSE {}

\* number of divisions the tree holds
RECURSIVE DivCount(_)
DivCount(node) ==
    IF node.kind = "BinOp"
    THEN (IF node.op = "DIV" THEN 1 ELSE 0) + DivCount(node.left) + DivCount(node.right)
    ELSE IF node.kind = "Assign" THEN DivCount(node.right)
    ELSE 0

ParseFailed == result.kind = "error" /\ result.err.kind \in {"IllegalCharacter", "UnexpectedToken"}

\* ------------------------------------------------------------------------
\* Properties of the lines of Spec
\* ------------------------------------------------------------------------

\* C3 as stated: when the first token of a line is an identifier, the
\* assignment production is taken if and only if the character immediately
\* following the identifier in the raw text is '='.
C3_AsStated ==
    (pc = "print" /\ StartsWithIdentifier(text)) =>
        (TookAssignment(text) <=> AfterFirstWord(text, 1) = "=")

\* C3 amended: when the first token of a line is an identifier, the
\* assignment production is taken if and only if the second character after
\* the identifier in the raw text (the one after the tokenizer's cursor) is
\* '='; otherwise the line is parsed as a bare expression, so the AST root
\* is an Assign only in that case.
C3_PeekIsSecondCharacter ==
    (pc = "print" /\ StartsWithIdentifier(text)) =>
        /\ TookAssignment(text) <=> AfterFirstWord(text, 2) = "="
        /\ tree.kind = "Assign" => AfterFirstWord(text, 2) = "="
        /\ (AfterFirstWord(text, 2) = "=" /\ result.kind = "ok") => tree.kind = "Assign"

C3_Witness ==
    /\ pc = "print"
    /\ StartsWithIdentifier(text)
    /\ AfterFirstWord(text, 1) = " "
    /\ AfterFirstWord(text, 2) = "="
    /\ tree.kind = "Assign"
    /\ result.kind = "ok"

\* the first unrecognized character of a line is at this index (0 if none)
FirstUnrecognized(s) ==
    IF \A k \in 1..Len(s) : s[k] \in Recognized THEN 0
    ELSE CHOOSE i \in 1..Len(s) :
            s[i] \notin Recognized /\ \A k \in 1..(i - 1) : s[k] \in Recognized

\* C6 as stated, in its last clause (which the rest of it implies): a
\* line that contains an unrecognized character, wherever it occurs, never
\* returns a result.
C6_AsStated ==
    (pc = "print" /\ FirstUnrecognized(text) > 0) => result.kind # "ok"

\* C6 amended: a line that contains an unrecognized character fails with
\* IllegalCharacter carrying the first such character exactly when parsing
\* the text before that character runs to the end of that text (the parser
\* then asks for a token at the character); when the parser stops earlier,
\* the line gives the result, error and store of the text before it.
C6_IllegalCharacterWhenReached ==
    (pc = "print" /\ FirstUnrecognized(text) > 0) =>
        \A i \in {FirstUnrecognized(text)} :
        \A alone \in {interpret(SubSeq(text, 1, i - 1), before)} :
            IF alone.tok.type = "EOF"
            THEN result = Error(IllegalCharacter(text[i])) /\ variables = before
            ELSE /\ result.kind = (IF alone.out.ok THEN "ok" ELSE "error")
                 /\ result.value = alone.out.value
                 /\ result.err = alone.out.err
                 /\ result.err.kind # "IllegalCharacter"
                 /\ variables = alone.out.store

C6_Witness ==
    /\ pc = "print"
    /\ FirstUnrecognized(text) > 1
    /\ result = Error(IllegalCharacter(text[FirstUnrecognized(text)]))

\* C7: parse either fails with an error or returns an AST whose root and
\* whose every BinOp and Assign child is a node, never None.
C7_TreeWellFormed ==
    pc = "print" => (ParseFailed \/ WellFormed(tree))

\* C8: no line ends in the UnhandledNodeKind error.
C8_NoUnhandledNodeKind ==
    pc = "print" => ~(result.kind = "error" /\ result.err.kind = "UnhandledNodeKind")

\* ------------------------------------------------------------------------
\* Lines written from an expression tree, with the parentheses the grammar
\* needs
\* ------------------------------------------------------------------------
Lit(v) == [kind |-> "Lit", value |-> v, name |-> <<>>]
Ref(n) == [kind |-> "Ref", value |-> 0, name |-> n]
Op(o, l, r) == [kind |-> "Op", op |-> o, left |-> l, right |-> r]

\* the shapes of the trees with exactly k operators: <<>> is a leaf, <<l, r>>
\* an operator over the shapes l and r
RECURSIVE Shapes(_)
Shapes(k) ==
    IF k = 0 THEN {<<>>}
    ELSE UNION {{<<l, r>> : l \in Shapes(i), r \in Shapes(k - 1 - i)} : i \in 0..(k - 1)}

RECURSIVE Size(_)
Size(shape) == IF shape = <<>> THEN 0 ELSE Size(shape[1]) + 1 + Size(shape[2])

\* the tree of that shape whose leaves, left to right from index first, are
\* leaves[first], ... and whose operators, in the same order, ops[first], ...
RECURSIVE Tree(_, _, _, _)
Tree(shape, leaves, ops, first) ==
    IF shape = <<>> THEN leaves[first]
    ELSE Op(ops[first + Size(shape[1])],
            Tree(shape[1], leaves, ops, first),
            Tree(shape[2], leaves, ops, first + Size(shape[1]) + 1))

Prec(o) == IF o \in {"*", "/"} THEN 2 ELSE 1

DigitChar(d) ==
    CASE d = 0 -> "0" [] d = 1 -> "1" [] d = 2 -> "2" [] d = 3 -> "3" [] d = 4 -> "4"
      [] d = 5 -> "5" [] d = 6 -> "6" [] d = 7 -> "7" [] d = 8 -> "8" [] d = 9 -> "9"

RECURSIVE Decimal(_)
Decimal(n) ==
    IF n < 10 THEN <<DigitChar(n)>> ELSE Decimal(n \div 10) \o <<DigitChar(n % 10)>>

Paren(s) == <<"(">> \o s \o <<")">>

\* the text of e; blanks around the operators when spaced
RECURSIVE Written(_, _)
Written(e, spaced) ==
    IF e.kind = "Lit" THEN Decimal(e.value)
    ELSE IF e.kind = "Ref" THEN e.name
    ELSE LET l == Written(e.left, spaced)
             r == Written(e.right, spaced)
             lp == e.left.kind = "Op" /\ Prec(e.left.op) < Prec(e.op)
             rp == e.right.kind = "Op" /\ Prec(e.right.op) <= Prec(e.op)
             o == IF spaced THEN <<" ", e.op, " ">> ELSE <<e.op>>
         IN  (IF lp THEN Paren(l) ELSE l) \o o \o (IF rp THEN Paren(r) ELSE r)

\* the integer an expression over literals, + - and * denotes
RECURSIVE Denotes(_)
Denotes(e) ==
    IF e.kind = "Lit" THEN e.value
    ELSE IF e.op = "+" THEN Denotes(e.left) + Denotes(e.right)
    ELSE IF e.op = "-" THEN Denotes(e.left) - Denotes(e.right)
    ELSE Denotes(e.left) * Denotes(e.right)

\* ------------------------------------------------------------------------
\* SpecExpr: lines written from an expression of at most MaxOps operators
\* over Literals
\* ------------------------------------------------------------------------
Literals == {2, 3, 4, 8, 10}
Operators == {"+", "-", "*"}

InputExpr ==
    /\ pc = "input"
    /\ \E k \in 0..MaxOps, spaced \in BOOLEAN :
       \E shape \in Shapes(k), leaves \in [1..(k + 1) -> {Lit(v) : v \in Literals}],
          ops \in [1..k -> Operators] :
           \E e \in {Tree(shape, leaves, ops, 1)} :
               \E line \in {Written(e, spaced)} : Line(line, e)

NextExpr == InputExpr \/ Report \/ Exit

SpecExpr == Init /\ [][NextExpr]_vars

\* ------------------------------------------------------------------------
\* SpecSession: lines of at most MaxWords words, one blank between words,
\* and statements `E` and `x = E` for an expression E of at most MaxStmtOps
\* operators, typed while the stored values are within MaxValue
\* ------------------------------------------------------------------------
Words == {<<"a">>, <<"b">>, <<"0">>, <<"1">>, <<"=">>, <<"+">>, <<"*">>, <<"/">>,
          <<"(">>, <<"@">>}
Names == {<<"a">>, <<"b">>}
Atoms == {Lit(0), Lit(1)} \cup {Ref(n) : n \in Names}
StmtOperators == {"+", "/"}

RECURSIVE Join(_)
Join(ws) ==
    IF ws = <<>> THEN <<>>
    ELSE IF Len(ws) = 1 THEN ws[1]
    ELSE ws[1] \o <<" ">> \o Join(Tail(ws))

Within(store, max) ==
    \A x \in DOMAIN store : Abs(store[x].num) <= max /\ store[x].den <= max

InputWords ==
    /\ pc = "input"
    /\ Within(variables, MaxValue)
    /\ \E ws \in Texts(Words, MaxWords) : \E line \in {Join(ws)} : Line(line, None)

\* the text of a statement of the grammar: `E`, or `x = E` for a target x
Statement(x, e) ==
    (IF x = <<>> THEN <<>> ELSE x \o <<" ", "=", " ">>) \o Written(e, TRUE)

InputStatement ==
    /\ pc = "input"
    /\ Within(variables, MaxValue)
    /\ \E x \in Names \cup {<<>>}, k \in 0..MaxStmtOps :
       \E shape \in Shapes(k), leaves \in [1..(k + 1) -> Atoms],
          ops \in [1..k -> StmtOperators] :
           \E line \in {Statement(x, Tree(shape, leaves, ops, 1))} : Line(line, None)

NextSession == InputWords \/ InputStatement \/ Report \/ Exit

SpecSession == Init /\ [][NextSession]_vars

\* ------------------------------------------------------------------------
\* SpecOperands: statements `E` and `a = E` for an expression E of at most
\* MaxStmtOps operators out of + * /, typed while the stored values are
\* within MaxValue
\* ------------------------------------------------------------------------
OperandOperators == {"+", "*", "/"}
OperandTargets == {<<>>, <<"a">>}

InputOperands ==
    /\ pc = "input"
    /\ Within(variables, MaxValue)
    /\ \E x \in OperandTargets, k \in 0..MaxStmtOps :
       \E shape \in Shapes(k), leaves \in [1..(k + 1) -> Atoms],
          ops \in [1..k -> OperandOperators] :
           \E line \in {Statement(x, Tree(shape, leaves, ops, 1))} : Line(line, None)

NextOperands == InputOperands \/ Report \/ Exit

SpecOperands == Init /\ [][NextOperands]_vars

\* ------------------------------------------------------------------------
\* Properties of the lines of SpecExpr
\* ------------------------------------------------------------------------

\* C2: a line written from an expression over integer literals, + - * and
\* parentheses returns the integer the expression denotes: * binds tighter
\* than + and -, equal precedence associates to the left, a parenthesized
\* sub-expression is a unit.
C2_ExpressionValue ==
    (pc = "print" /\ src.kind # "None") =>
        /\ result = Result(IntVal(Denotes(src)))
        /\ variables = before

C2_Witness ==
    /\ pc = "print"
    /\ src = Op("*", Op("+", Lit(2), Lit(3)), Lit(4))
    /\ text = <<"(", "2", " ", "+", " ", "3", ")", " ", "*", " ", "4">>
    /\ result = Result(IntVal(20))

\* ------------------------------------------------------------------------
\* Properties of the lines of SpecSession
\* ------------------------------------------------------------------------

\* C1: once a line `x = E` has been evaluated successfully with result v,
\* and until another line assigning x is typed, a line that is only `x`
\* returns v and the line `x + 1` returns v + 1.
C1_AssignedValueIsRead ==
    pc = "print" =>
        \A x \in DOMAIN assigned :
            /\ strip(text) = x => result = Result(assigned[x])
            /\ text = x \o <<" ", "+", " ", "1">> =>
                   result = Result(py_add(assigned[x], IntVal(1)))

C1_Witness ==
    /\ pc = "print"
    /\ <<"a">> \in DOMAIN assigned
    /\ assigned[<<"a">>] = IntVal(1)
    /\ text = <<"a", " ", "+", " ", "1">>
    /\ result = Result(IntVal(2))

\* C4: after a line that ends in an error the store is the store from
\* before the line, and the loop goes on to the next prompt with it.
C4_ErrorKeepsStore ==
    /\ (pc = "print" /\ result.kind = "error") => (variables = before /\ ENABLED Report)
    /\ pc = "input" => variables = before

C4_Witness ==
    /\ pc = "print"
    /\ result = Error(ZeroDivisionError)
    /\ tree.kind = "Assign"
    /\ before # EmptyStore
    /\ variables = before

\* C5: a line whose evaluation reaches a variable reference with a name that
\* is not in the store fails with UndefinedVariable carrying such a name (a
\* line that divides may fail in the division before it reaches the
\* reference); nothing is returned and the store gets no entry for the name.
C5_UndefinedVariable ==
    (pc = "print" /\ ~ParseFailed /\ WellFormed(tree)
        /\ VarNames(tree) \ DOMAIN before # {}) =>
        /\ result.kind = "error"
        /\ result.err.kind \in {"UndefinedVariable", "ZeroDivisionError"}
        /\ result.err.kind = "UndefinedVariable" =>
               result.err.name \in VarNames(tree) \ DOMAIN before
        /\ DivCount(tree) = 0 => result.err.kind = "UndefinedVariable"
        /\ variables = before

C5_Witness ==
    /\ pc = "print"
    /\ tree.kind = "Var"
    /\ tree.name \notin DOMAIN before
    /\ before # EmptyStore
    /\ result = Error(UndefinedVariable(tree.name))
    /\ tree.name \notin DOMAIN variables

\* C9: the AST of a line holds at most one Assign, at its root; evaluating
\* the line changes the store at most at the root assignment's target, and
\* leaves the whole store unchanged when the root is no Assign.
C9_OneAssignmentAtRoot ==
    pc = "print" =>
        /\ AssignCount(tree) <= 1
        /\ AssignCount(tree) = 1 => tree.kind = "Assign"
        /\ tree.kind # "Assign" => variables = before
        /\ tree.kind = "Assign" =>
             /\ DOMAIN variables \subseteq DOMAIN before \cup {tree.left.name}
             /\ \A x \in DOMAIN before \ {tree.left.name} :
                    x \in DOMAIN variables /\ variables[x] = before[x]

C9_Witness ==
    /\ pc = "print"
    /\ tree.kind = "Assign"
    /\ result.kind = "ok"
    /\ DOMAIN before \ {tree.left.name} # {}
    /\ tree.left.name \notin DOMAIN before
    /\ tree.left.name \in DOMAIN variables

\* ------------------------------------------------------------------------
\* Properties of the lines of SpecOperands
\* ------------------------------------------------------------------------

\* What evaluation does, one step after the other: the operands of a BinOp
\* left to right, then its operator; the right-hand side of an Assign, then
\* the store.
RECURSIVE Steps(_)
Steps(node) ==
    IF node.kind = "BinOp"
    THEN Steps(node.left) \o Steps(node.right) \o <<[step |-> "apply", arg |-> node.op]>>
    ELSE IF node.kind = "Assign"
    THEN Steps(node.right) \o <<[step |-> "store", arg |-> node.left.name]>>
    ELSE IF node.kind = "Num" THEN <<[step |-> "push", arg |-> node.value]>>
    ELSE IF node.kind = "Var" THEN <<[step |-> "load", arg |-> node.name]>>
    ELSE <<[step |-> "none", arg |-> 0]>>

\* runs steps[i..] on a stack of values; stops at the first step that fails
RECURSIVE Run(_, _, _, _)
Run(steps, i, stack, store) ==
    IF i > Len(steps) THEN VOk(stack[Len(stack)], store)
    ELSE LET s == steps[i]
             n == Len(stack)
         IN  IF s.step = "push" THEN Run(steps, i + 1, Append(stack, IntVal(s.arg)), store)
             ELSE IF s.step = "load"
             THEN IF s.arg \in DOMAIN store
                  THEN Run(steps, i + 1, Append(stack, store[s.arg]), store)
                  ELSE VErr(UndefinedVariable(s.arg), store)
             ELSE IF s.step = "store"
             THEN Run(steps, i + 1, stack, set_item(store, s.arg, stack[n]))
             ELSE IF s.step = "none" THEN VErr(UnhandledNodeKind("NoneType"), store)
             ELSE IF s.arg = "DIV" /\ stack[n].num = 0 THEN VErr(ZeroDivisionError, store)
             ELSE Run(steps, i + 1,
                      Append(SubSeq(stack, 1, n - 2),
                             IF s.arg = "PLUS" THEN py_add(stack[n - 1], stack[n])
                             ELSE IF s.arg = "MINUS" THEN py_sub(stack[n - 1], stack[n])
                             ELSE IF s.arg = "MUL" THEN py_mul(stack[n - 1], stack[n])
                             ELSE py_truediv(stack[n - 1], stack[n])),
                      store)

\* C10: a BinOp evaluates its left operand completely, then its right
\* operand, then applies the operator: the line's outcome is that of taking
\* the steps of its tree in that order and stopping at the first that fails.
C10_LeftThenRight ==
    (pc = "print" /\ ~ParseFailed) =>
        \A r \in {Run(Steps(tree), 1, <<>>, before)} :
            /\ result = (IF r.ok THEN Result(r.value) ELSE Error(r.err))
            /\ variables = r.store

C10_Witness ==
    /\ pc = "print"
    /\ text = <<"0", " ", "*", " ", "b">>
    /\ tree.kind = "BinOp"
    /\ tree.left = [kind |-> "Num", value |-> 0]
    /\ tree.right.kind = "Var"
    /\ before # EmptyStore
    /\ result = Error(UndefinedVariable(<<"b">>))

====
